---- MODULE Spec2Model ----
(***************************************************************************)
(* Model of lighting-control-cli.py: the ScheduledLoop drift-correcting    *)
(* scheduler, the fade / switch / beat / strobe effect loops running as    *)
(* asyncio tasks, the interactive command dispatcher that starts and       *)
(* cancels them, the shared TEMPO and COLORS globals, the tap-tempo        *)
(* estimator and the latency window.                                       *)
(*                                                                         *)
(* Time is the integer millisecond reading of time.perf_counter().         *)
(* Intervals are exact rationals [n, d] of milliseconds.  TEMPO is a       *)
(* binary floating value m * 2^e with m odd (or m = 0), which represents   *)
(* both the Python ints and the floats that "[" produces.                  *)
(***************************************************************************)
EXTENDS Integers, Sequences, FiniteSets, TLC

(* ------------------------------ bounds -------------------------------- *)
MaxTasks == 3          \* tasks created in one run of the dispatcher
MaxTime == 250         \* last clock reading explored (ms), loop commands
MaxTimeColors == 2100  \* the same, one loop under colors commands
MaxTimeSched == 400    \* the same, one loop under tempo changes
MaxExpMain == 4        \* "]" is explored while the tempo exponent is below
MinExpMain == 2        \* "[" is explored while the tempo exponent is above
MaxExpWide == 9        \* the same caps in the tempo-only specification
MaxTaps == 2           \* taps explored in one tap session
MaxBeats == 4          \* beats_per_cycle values evaluated
MaxTapsWide == 9       \* taps of one session in the tap-only specification
MaxTimeTap == 1600     \* last clock reading explored (ms), tap-only
MaxTimeStrobe == 200   \* the same, a strobe loop under tempo changes
MaxColorArgs == 2      \* entries of one colors command
MaxSamples == 51       \* device calls that return in one run
MaxSlow == 1           \* of them, calls slower than the fastest latency

(* ------------------------- program constants -------------------------- *)
None == 0              \* a null task handle / unset start_time is NoTime
NoTime == 0 - 1
DRIFT_MS == 100        \* wait_time < -0.1
STROBE_MS == 80        \* intervalOverride=0.08
WARMUP_MS == 50        \* asyncio.sleep(0.05)
TAP_MAXLEN == 8        \* deque(maxlen=8)
LATENCY_MAXLEN == 50   \* deque(maxlen=50)
TEMPO_MIN == 40
TEMPO_MAX == 240
FLOAT_MIN_EXP == 0 - 1074   \* exponent of the smallest positive double

NAMED_COLORS ==
  [ white |-> "#ffffff", red |-> "#FF0000", orange |-> "#FF2000",
    yellow |-> "#FF9200", ferngreen |-> "#AAFF00", green |-> "#00FF00",
    seagreen |-> "#0EFF1E", cyan |-> "#00FFDD", lavender |-> "#4433fa",
    blue |-> "#0000FF", violet |-> "#9900FF", magenta |-> "#FE00AE",
    pink |-> "#FF0016" ]

\* The strings of the model that begin with "#".
HashStrings ==
  { NAMED_COLORS[k] : k \in DOMAIN NAMED_COLORS } \cup { "#123456", "#12" }

StartsWithHash(s) == s \in HashStrings

\* str.lower() on the tokens of the model.
Lower(s) == IF s = "RED" THEN "red" ELSE IF s = "Cyan" THEN "cyan" ELSE s

resolve_color(color_input) ==
  IF StartsWithHash(color_input) THEN color_input
  ELSE IF Lower(color_input) \in DOMAIN NAMED_COLORS
       THEN NAMED_COLORS[Lower(color_input)]
       ELSE color_input

(* --------------------------- tempo values ----------------------------- *)
RECURSIVE Pow2(_)
Pow2(k) == IF k <= 0 THEN 1 ELSE 2 * Pow2(k - 1)

RECURSIVE NormTempo(_, _)
NormTempo(m, e) ==
  IF m = 0 THEN [m |-> 0, e |-> 0]
  ELSE IF m % 2 = 0 THEN NormTempo(m \div 2, e + 1)
  ELSE [m |-> m, e |-> e]

TempoInt(k) == NormTempo(k, 0)

\* TEMPO * 2
TempoDouble(t) == IF t.m = 0 THEN t ELSE [m |-> t.m, e |-> t.e + 1]

\* TEMPO / 2: exact while the result is representable, then rounded to the
\* nearest multiple of 2^FLOAT_MIN_EXP, ties to even.
TempoHalve(t) ==
  IF t.m = 0 THEN t
  ELSE IF t.e > FLOAT_MIN_EXP THEN [m |-> t.m, e |-> t.e - 1]
  ELSE LET k == t.m \div 2
           r == IF k % 2 = 0 THEN k ELSE k + 1
       IN NormTempo(r, FLOAT_MIN_EXP)

VARIABLES
  TEMPO,           \* global TEMPO
  COLORS,          \* global COLORS
  beat_task, fade_task, switch_task, strobe_task,   \* interactive_mode handles
  strobe,          \* interactive_mode's strobe flag
  previous_tasks,  \* interactive_mode's previous_tasks
  tasks,           \* the loop tasks created so far, by task id
  main_pc,         \* where interactive_mode is suspended
  tap_times,       \* tap_tempo's deque
  now,             \* time.perf_counter() in ms
  out,             \* device calls issued by the last step
  tap_count,       \* taps read in the current tap session
  hist,            \* the last commands read by interactive_mode
  probe,           \* the operation under evaluation: its inputs and results
  latency_history  \* global latency_history, samples in microseconds

vars == << TEMPO, COLORS, beat_task, fade_task, switch_task, strobe_task,
           strobe, previous_tasks, tasks, main_pc, tap_times, tap_count,
           now, out, hist, probe, latency_history >>

(* ----------------------------- scheduler ------------------------------ *)
ScheduledLoop(beats_per_cycle, intervalOverride) ==
  [ beats_per_cycle |-> beats_per_cycle,
    start_time |-> NoTime,
    cycle_num |-> 0,
    current_tempo |-> TEMPO,
    interval |-> intervalOverride ]

\* 60 / TEMPO seconds, in ms as a rational; d = 0 is the ZeroDivisionError.
beat_duration ==
  IF TEMPO.e >= 0
  THEN [n |-> 60000, d |-> TEMPO.m * Pow2(TEMPO.e)]
  ELSE [n |-> 60000 * Pow2(0 - TEMPO.e), d |-> TEMPO.m]

\* calculate_interval evaluates 60 / TEMPO before it looks at the override:
\* with TEMPO == 0 every call of it raises, whatever the scheduler.
ZeroDivisionError == TEMPO.m = 0

\* Variant: beats_per_cycle is left out of the product.
calculate_interval_per_beat(self) ==
  IF self.interval # 0
  THEN [n |-> self.interval, d |-> 1]
  ELSE [n |-> beat_duration.n, d |-> beat_duration.d]

calculate_interval(self) ==
  IF self.interval # 0
  THEN [n |-> self.interval, d |-> 1]
  ELSE [n |-> beat_duration.n * self.beats_per_cycle, d |-> beat_duration.d]

\* Variant: only the anchor is moved.
reset_timing_keeps_cycle(self) == [self EXCEPT !.start_time = now]

reset_timing(self) == [self EXCEPT !.start_time = now, !.cycle_num = 0]

\* Variant: the cursor is reset but the snapshot is not taken.
check_tempo_changed_keeps_snapshot(self) ==
  IF TEMPO # self.current_tempo THEN reset_timing(self) ELSE self

\* Variant: the cursor is reset on every check.
check_tempo_changed_always(self) ==
  reset_timing([self EXCEPT !.current_tempo = TEMPO])

check_tempo_changed(self) ==
  IF TEMPO # self.current_tempo
  THEN reset_timing([self EXCEPT !.current_tempo = TEMPO])
  ELSE self

\* Variant: a wait_time of exactly -0.1 counts as behind.
Behind_inclusive(w, d) == w <= 0 - DRIFT_MS * d

\* wait_time < -0.1, on wait_time * d.
Behind(w, d) == w < 0 - DRIFT_MS * d

\* wait_time * d, for the interval n/d: the sign and the drift test are
\* taken on it.
WaitTimeScaled(self) ==
  LET iv == calculate_interval(self)
  IN (self.start_time - now) * iv.d + self.cycle_num * iv.n

\* The first clock reading at or after scheduled_time.
ScheduledCeil(self) ==
  LET iv == calculate_interval(self)
      num == self.start_time * iv.d + self.cycle_num * iv.n
  IN (num + iv.d - 1) \div iv.d

(* ------------------------------- tasks -------------------------------- *)
NoLoop ==
  [ beats_per_cycle |-> 0, start_time |-> NoTime, cycle_num |-> 0,
    current_tempo |-> [m |-> 0, e |-> 0], interval |-> 0 ]

\* A task that holds no live frame: not yet started, cancelled or failed.
Dead(kind, pc) ==
  [ kind |-> kind, pc |-> pc, color |-> "None", colors_to_use |-> << >>,
    color_index |-> 0, current_color |-> "None", power_state |-> "unbound",
    loop |-> NoLoop, wake_at |-> NoTime, warm |-> 0 ]

\* asyncio.create_task(coro(args)): the body runs at the task's first step.
NewTask(kind, color) == [Dead(kind, "start") EXCEPT !.color = color]

\* Positions between two awaits (the task is executing) and at an await.
RunningPcs == {"check", "wait", "calc", "fire"}
SuspendedPcs == {"start", "await_color", "await_power", "warm_sleep", "sleep"}

TaskIds == DOMAIN tasks

\* Variant: tap_tempo reads the key with a plain blocking read.
AwaitsExecutor_input_only(pc) == pc = "input"

\* interactive_mode and tap_tempo read the keyboard with
\* await loop.run_in_executor(...): the event loop is free meanwhile.
AwaitsExecutor(pc) == pc \in {"input", "tap_read"}

\* The single thread is not inside any coroutine.
Idle ==
  /\ AwaitsExecutor(main_pc)
  /\ \A t \in TaskIds : tasks[t].pc \notin RunningPcs

NoOut == [by |-> 0, acts |-> << >>]
Call(op, arg, n) == [op |-> op, arg |-> arg, n |-> n]
Issue(t, acts) == [by |-> t, acts |-> acts]

\* The top of the task's while True loop.
LoopTop(kind) == IF kind = "strobe" THEN "wait" ELSE "check"

Not(p) == IF p = "True" THEN "False" ELSE "True"

UNCH_CMD ==
  UNCHANGED << beat_task, fade_task, switch_task, strobe_task, strobe,
               previous_tasks, main_pc, tap_times, tap_count, hist,
               probe, latency_history >>

\* First step of a loop coroutine, up to its first await.
TaskStart(t) ==
  /\ Idle
  /\ tasks[t].pc = "start"
  /\ LET self == tasks[t] IN
       CASE ZeroDivisionError ->
              \* interval = loop.calculate_interval() raises
              /\ tasks' = [tasks EXCEPT ![t] = Dead(self.kind, "failed")]
              /\ out' = NoOut
         [] ~ZeroDivisionError /\ self.kind \in {"fade", "switch"} ->
              LET cs == IF self.color = "None" THEN COLORS ELSE <<self.color>>
              IN /\ tasks' = [tasks EXCEPT ![t] =
                       [self EXCEPT !.colors_to_use = cs,
                                    !.color_index = 0,
                                    !.current_color = cs[1],
                                    !.loop = ScheduledLoop(2, 0),
                                    !.pc = "await_color"]]
                 /\ out' = Issue(t, <<Call("set_color", cs[1], 100)>>)
         [] ~ZeroDivisionError /\ self.kind = "beat" ->
              /\ tasks' = [tasks EXCEPT ![t] =
                    [self EXCEPT !.loop = ScheduledLoop(1, 0),
                                 !.warm = 1,
                                 !.pc = "await_power"]]
              /\ out' = Issue(t, <<Call("set_power", "True", 0)>>)
         [] ~ZeroDivisionError /\ self.kind = "strobe" ->
              /\ tasks' = [tasks EXCEPT ![t] =
                    [self EXCEPT !.loop = ScheduledLoop(0, STROBE_MS),
                                 !.pc = "wait"]]
              /\ out' = NoOut
  /\ UNCHANGED << TEMPO, COLORS, now >>
  /\ UNCH_CMD

\* An awaited device call returns (any body, or None after a timeout) or
\* raises an exception that api_call does not catch.  No loop reads
\* latency_history: the sample api_call records on its way back is
\* followed separately, by ApiCallDone.
NetOutcomes == {"OK", "timeout", "error"}

NetDone(t, outcome) ==
  /\ Idle
  /\ tasks[t].pc \in {"await_color", "await_power"}
  /\ LET self == tasks[t] IN
       IF outcome = "error"
       THEN /\ tasks' = [tasks EXCEPT ![t] = Dead(self.kind, "failed")]
            /\ out' = NoOut
       ELSE CASE self.pc = "await_color" /\ self.kind = "fade" ->
                   /\ tasks' = [tasks EXCEPT ![t].pc = "check"]
                   /\ out' = NoOut
              [] self.pc = "await_color" /\ self.kind = "switch" ->
                   /\ tasks' = [tasks EXCEPT ![t].pc = "await_power"]
                   /\ out' = Issue(t, <<Call("set_power", "True", 0)>>)
              [] self.pc = "await_power" /\ self.kind = "switch" ->
                   /\ tasks' = [tasks EXCEPT ![t].pc = "check"]
                   /\ out' = NoOut
              [] self.pc = "await_power" /\ self.kind = "beat" ->
                   /\ tasks' = [tasks EXCEPT ![t].pc = "warm_sleep",
                                             ![t].wake_at = now + WARMUP_MS]
                   /\ out' = NoOut
  /\ UNCHANGED << TEMPO, COLORS, now >>
  /\ UNCH_CMD

\* beat_loop's warmup: for _ in range(3): set_power; sleep(0.05)
WarmWake(t) ==
  /\ Idle
  /\ tasks[t].pc = "warm_sleep"
  /\ now >= tasks[t].wake_at
  /\ IF tasks[t].warm < 3
     THEN /\ tasks' = [tasks EXCEPT ![t].warm = @ + 1,
                                    ![t].pc = "await_power",
                                    ![t].wake_at = NoTime]
          /\ out' = Issue(t, <<Call("set_power", "True", 0)>>)
     ELSE /\ tasks' = [tasks EXCEPT ![t].pc = "check", ![t].wake_at = NoTime]
          /\ out' = NoOut
  /\ UNCHANGED << TEMPO, COLORS, now >>
  /\ UNCH_CMD

\* Top of the fade / switch / beat loop: check_tempo_changed and the
\* refresh of colors_to_use.
Check(t) ==
  /\ tasks[t].pc = "check"
  /\ LET self == tasks[t]
         cs == IF /\ self.kind \in {"fade", "switch"}
                  /\ self.color = "None"
                  /\ self.colors_to_use # COLORS
               THEN COLORS ELSE self.colors_to_use
     IN IF TEMPO # self.loop.current_tempo /\ ZeroDivisionError
        THEN \* check_tempo_changed's own calculate_interval raises
             tasks' = [tasks EXCEPT ![t] = Dead(self.kind, "failed")]
        ELSE tasks' = [tasks EXCEPT ![t] =
                [self EXCEPT !.loop = check_tempo_changed(self.loop),
                             !.colors_to_use = cs,
                             !.pc = "wait"]]
  /\ out' = NoOut
  /\ UNCHANGED << TEMPO, COLORS, now >>
  /\ UNCH_CMD

\* wait_for_next_cycle, entry: the anchor is set on the first call.
WaitEnter(t) ==
  /\ tasks[t].pc = "wait"
  /\ tasks' = [tasks EXCEPT ![t].loop =
        IF @.start_time = NoTime THEN reset_timing(@) ELSE @,
                            ![t].pc = "calc"]
  /\ out' = NoOut
  /\ UNCHANGED << TEMPO, COLORS, now >>
  /\ UNCH_CMD

\* wait_for_next_cycle from "interval = ..." on: sleep, resync or proceed.
WaitCalc(t) ==
  /\ tasks[t].pc = "calc"
  /\ LET self == tasks[t]
         w == WaitTimeScaled(self.loop)
         d == calculate_interval(self.loop).d
     IN IF ZeroDivisionError
        THEN tasks' = [tasks EXCEPT ![t] = Dead(self.kind, "failed")]
        ELSE IF w > 0
        THEN tasks' = [tasks EXCEPT ![t].pc = "sleep",
                                    ![t].wake_at = ScheduledCeil(self.loop)]
        ELSE IF Behind(w, d)
        THEN tasks' = [tasks EXCEPT ![t].loop = reset_timing(@),
                                    ![t].pc = LoopTop(self.kind)]
        ELSE tasks' = [tasks EXCEPT ![t].loop.cycle_num = @ + 1,
                                    ![t].pc = "fire"]
  /\ out' = NoOut
  /\ UNCHANGED << TEMPO, COLORS, now >>
  /\ UNCH_CMD

\* asyncio.sleep(wait_time) returns: the cycle proceeds.
Wake(t) ==
  /\ Idle
  /\ tasks[t].pc = "sleep"
  /\ now >= tasks[t].wake_at
  /\ tasks' = [tasks EXCEPT ![t].loop.cycle_num = @ + 1,
                            ![t].pc = "fire",
                            ![t].wake_at = NoTime]
  /\ out' = NoOut
  /\ UNCHANGED << TEMPO, COLORS, now >>
  /\ UNCH_CMD

\* The body of the loop after a cycle that was not skipped.
Fire(t) ==
  /\ tasks[t].pc = "fire"
  /\ LET self == tasks[t]
         len == Len(self.colors_to_use)
         nxt == (self.color_index + 1) % len
     IN CASE self.kind = "fade" ->
               IF self.power_state = "unbound"
               THEN \* power_state is read before any assignment
                    /\ tasks' = [tasks EXCEPT ![t] = Dead("fade", "failed")]
                    /\ out' = NoOut
               ELSE LET p == Not(self.power_state) IN
                    IF p = "True" /\ len > 1
                    THEN /\ tasks' = [tasks EXCEPT ![t] =
                               [self EXCEPT !.power_state = p,
                                            !.color_index = nxt,
                                            !.current_color =
                                               self.colors_to_use[nxt + 1],
                                            !.pc = "check"]]
                         /\ out' = Issue(t,
                               << Call("set_power", p, 0),
                                  Call("set_color",
                                       self.colors_to_use[nxt + 1], 100) >>)
                    ELSE /\ tasks' = [tasks EXCEPT ![t].power_state = p,
                                                   ![t].pc = "check"]
                         /\ out' = Issue(t, <<Call("set_power", p, 0)>>)
          [] self.kind = "switch" ->
               LET cur == IF len > 1 THEN self.colors_to_use[nxt + 1]
                          ELSE self.current_color
                   idx == IF len > 1 THEN nxt ELSE self.color_index
               IN /\ tasks' = [tasks EXCEPT ![t].color_index = idx,
                                            ![t].current_color = cur,
                                            ![t].pc = "check"]
                  /\ out' = Issue(t, <<Call("set_color", cur, 100)>>)
          [] self.kind = "beat" ->
               /\ tasks' = [tasks EXCEPT ![t].pc = "check"]
               /\ out' = Issue(t, <<Call("set_effect", "white_strobe_flash", 100)>>)
          [] self.kind = "strobe" ->
               /\ tasks' = [tasks EXCEPT ![t].pc = "wait"]
               /\ out' = Issue(t, <<Call("set_effect", "white_strobe_flash", 50)>>)
  /\ UNCHANGED << TEMPO, COLORS, now >>
  /\ UNCH_CMD

(* ---------------------------- dispatcher ------------------------------ *)
\* task.cancel(): a suspended task never runs again; a finished one is
\* left as it is.
Cancel(ts, id) ==
  IF id = None THEN ts
  ELSE IF ts[id].pc \in SuspendedPcs
       THEN [ts EXCEPT ![id] = Dead(ts[id].kind, "cancelled")]
       ELSE ts

\* Variant: the strobe handle is returned as it was.
stop_all_tasks_keeps_strobe(b, f, sw, st) ==
  [ tasks |-> Cancel(Cancel(Cancel(Cancel(tasks, b), f), sw), st),
    handles |-> << None, None, None, st >> ]

\* Variant: the beat task is not cancelled.
stop_all_tasks_skips_beat(b, f, sw, st) ==
  [ tasks |-> Cancel(Cancel(Cancel(tasks, f), sw), st),
    handles |-> << None, None, None, None >> ]

\* Returns the tasks after the cancellations and the four handles
\* (beat, fade, switch, strobe) the caller assigns.
stop_all_tasks(b, f, sw, st) ==
  [ tasks |-> Cancel(Cancel(Cancel(Cancel(tasks, b), f), sw), st),
    handles |-> << None, None, None, None >> ]

\* interactive_mode reads a command only while it awaits input().
CmdReady == Idle /\ main_pc = "input"

\* hist: the three most recent loop commands (fade, switch, beat, stop, s).
Push(c) ==
  hist' = IF Len(hist) < 3 THEN Append(hist, c) ELSE Append(Tail(hist), c)

\* Assign the handles returned by stop_all_tasks, then start one loop.
StartLoop(r, kind, color) ==
  LET id == Len(tasks) + 1 IN
  /\ Len(tasks) < MaxTasks
  /\ tasks' = Append(r.tasks, NewTask(kind, color))
  /\ beat_task' = IF kind = "beat" THEN id ELSE r.handles[1]
  /\ fade_task' = IF kind = "fade" THEN id ELSE r.handles[2]
  /\ switch_task' = IF kind = "switch" THEN id ELSE r.handles[3]
  /\ strobe_task' = IF kind = "strobe" THEN id ELSE r.handles[4]

StartNone(r) ==
  /\ tasks' = r.tasks
  /\ beat_task' = r.handles[1]
  /\ fade_task' = r.handles[2]
  /\ switch_task' = r.handles[3]
  /\ strobe_task' = r.handles[4]

\* command == "s"
CmdStrobe ==
  /\ CmdReady
  /\ LET strobe1 == ~strobe
         prev1 == IF strobe1
                  THEN << fade_task # None, switch_task # None >>
                  ELSE previous_tasks
         r == stop_all_tasks(beat_task, fade_task, switch_task, strobe_task)
     IN /\ strobe' = strobe1
        /\ previous_tasks' = prev1
        /\ IF strobe1 THEN StartLoop(r, "strobe", "None")
           ELSE IF prev1[1] THEN StartLoop(r, "fade", "None")
           ELSE IF prev1[2] THEN StartLoop(r, "switch", "None")
           ELSE StartNone(r)
  /\ out' = NoOut
  /\ Push("s")
  /\ UNCHANGED << TEMPO, COLORS, main_pc, tap_times, tap_count, now, probe,
                  latency_history >>

\* command.startswith("fade") / ("switch"); arg is parts[1] or "None".
CmdCycle(mode, arg) ==
  /\ CmdReady
  /\ LET color == IF arg = "None" THEN "None" ELSE resolve_color(arg)
         r == stop_all_tasks(beat_task, fade_task, switch_task, strobe_task)
     IN StartLoop(r, mode, color)
  /\ out' = NoOut
  /\ Push(mode)
  /\ UNCHANGED << TEMPO, COLORS, strobe, previous_tasks, main_pc, tap_times,
                  tap_count, now, probe, latency_history >>

CmdFade(arg) == CmdCycle("fade", arg)

CmdSwitch(arg) == CmdCycle("switch", arg)

\* command == "beat"
CmdBeat ==
  /\ CmdReady
  /\ StartLoop(stop_all_tasks(beat_task, fade_task, switch_task, strobe_task),
               "beat", "None")
  /\ out' = NoOut
  /\ Push("beat")
  /\ UNCHANGED << TEMPO, COLORS, strobe, previous_tasks, main_pc, tap_times,
                  tap_count, now, probe, latency_history >>

\* command == "stop"
CmdStop ==
  /\ CmdReady
  /\ StartNone(stop_all_tasks(beat_task, fade_task, switch_task, strobe_task))
  /\ out' = Issue(0, <<Call("set_power", "False", 0)>>)
  /\ Push("stop")
  /\ UNCHANGED << TEMPO, COLORS, strobe, previous_tasks, main_pc, tap_times,
                  tap_count, now, probe, latency_history >>

UNCH_LOOPS ==
  UNCHANGED << beat_task, fade_task, switch_task, strobe_task, strobe,
               previous_tasks, tasks >>

\* The tokens given to the tempo command, and int() on them.
TempoArgs == {"abc", "39", "60", "240", "241"}

ManualArgs == TempoArgs \cup {"40", "-60", "1000"}

ParseInt ==
  [ s \in ManualArgs |->
      LET hits == { n \in (0 - 100) .. 1000 : ToString(n) = s }
      IN IF hits = {} THEN [ok |-> FALSE, v |-> 0]
         ELSE [ok |-> TRUE, v |-> CHOOSE n \in hits : TRUE] ]

\* Variant: any integer is taken as the new tempo.
Tempo_unchecked(arg) ==
  /\ CmdReady
  /\ IF arg # "None" /\ ParseInt[arg].ok
     THEN TEMPO' = TempoInt(ParseInt[arg].v)
     ELSE TEMPO' = TEMPO
  /\ out' = NoOut
  /\ UNCHANGED hist
  /\ UNCH_LOOPS
  /\ UNCHANGED << COLORS, main_pc, tap_times, tap_count, now,
                  latency_history >>

\* command.startswith("tempo"); arg is parts[1] or "None".
Tempo(arg) ==
  /\ CmdReady
  /\ IF arg # "None" /\ ParseInt[arg].ok
        /\ TEMPO_MIN <= ParseInt[arg].v /\ ParseInt[arg].v <= TEMPO_MAX
     THEN TEMPO' = TempoInt(ParseInt[arg].v)
     ELSE TEMPO' = TEMPO
  /\ out' = NoOut
  /\ UNCHANGED hist
  /\ UNCH_LOOPS
  /\ UNCHANGED << COLORS, main_pc, tap_times, tap_count, now,
                  latency_history >>

CmdTempo(arg) == Tempo(arg) /\ UNCHANGED probe

\* command == "]"
Double(cap) ==
  /\ CmdReady
  /\ TEMPO.e < cap
  /\ TEMPO' = TempoDouble(TEMPO)
  /\ out' = NoOut
  /\ UNCHANGED hist
  /\ UNCH_LOOPS
  /\ UNCHANGED << COLORS, main_pc, tap_times, tap_count, now,
                  latency_history >>

CmdDouble(cap) == Double(cap) /\ UNCHANGED probe

\* command == "["
Halve(floor) ==
  /\ CmdReady
  /\ TEMPO.e > floor
  /\ TEMPO' = TempoHalve(TEMPO)
  /\ out' = NoOut
  /\ UNCHANGED hist
  /\ UNCH_LOOPS
  /\ UNCHANGED << COLORS, main_pc, tap_times, tap_count, now,
                  latency_history >>

CmdHalve(floor) == Halve(floor) /\ UNCHANGED probe

RECURSIVE FilterHash(_)
FilterHash(cs) ==
  IF cs = << >> THEN << >>
  ELSE IF StartsWithHash(Head(cs)) THEN <<Head(cs)>> \o FilterHash(Tail(cs))
  ELSE FilterHash(Tail(cs))

\* command.startswith("colors"); parts1 is parts[1:].
Colors(parts1) ==
  /\ CmdReady
  /\ LET new_colors ==
           FilterHash([i \in 1 .. Len(parts1) |-> resolve_color(parts1[i])])
     IN IF Len(parts1) > 0 /\ new_colors # << >>
        THEN COLORS' = new_colors
        ELSE COLORS' = COLORS
  /\ out' = NoOut
  /\ UNCHANGED hist
  /\ UNCH_LOOPS
  /\ UNCHANGED << TEMPO, main_pc, tap_times, tap_count, now,
                  latency_history >>

CmdColors(parts1) == Colors(parts1) /\ UNCHANGED probe

(* ----------------------------- tap tempo ------------------------------ *)
\* command == "tap": interactive_mode awaits tap_tempo().
CmdTap ==
  /\ CmdReady
  /\ main_pc' = "tap_read"
  /\ tap_times' = << >>
  /\ tap_count' = 0
  /\ out' = NoOut
  /\ UNCHANGED hist
  /\ UNCH_LOOPS
  /\ UNCHANGED << TEMPO, COLORS, now, probe, latency_history >>

RECURSIVE SumSeq(_)
SumSeq(q) == IF q = << >> THEN 0 ELSE Head(q) + SumSeq(Tail(q))

\* round(n / d), ties to even, for n >= 0 and d > 0.
RoundHalfEven(n, d) ==
  LET q == n \div d
      r == n % d
  IN IF 2 * r < d THEN q
     ELSE IF 2 * r > d THEN q + 1
     ELSE IF q % 2 = 0 THEN q ELSE q + 1

Max(a, b) == IF a >= b THEN a ELSE b
Min(a, b) == IF a <= b THEN a ELSE b

\* Variant: nothing is ever evicted.
DequeAppend_unbounded(q, x, maxlen) == Append(q, x)

\* deque(maxlen=...).append
DequeAppend(q, x, maxlen) ==
  IF Len(q) < maxlen THEN Append(q, x) ELSE Append(Tail(q), x)

\* Variant: the rounded value is published as it is.
TapTempoOf_unclamped(q) ==
  LET intervals == [i \in 1 .. Len(q) - 1 |-> q[i + 1] - q[i]]
  IN RoundHalfEven(60000 * Len(intervals), SumSeq(intervals))

\* The tempo tap_tempo publishes for the deque q (len(q) >= 2).
TapTempoOf(q) ==
  LET intervals == [i \in 1 .. Len(q) - 1 |-> q[i + 1] - q[i]]
      \* avg_interval = SumSeq(intervals) / Len(intervals) ms
      new_tempo == RoundHalfEven(60000 * Len(intervals), SumSeq(intervals))
  IN Max(TEMPO_MIN, Min(TEMPO_MAX, new_tempo))

\* A 't' key in tap mode.  Two taps never read the same clock value.
TapKey(maxTaps) ==
  /\ Idle
  /\ main_pc = "tap_read"
  /\ tap_count < maxTaps
  /\ IF tap_times = << >> THEN TRUE ELSE now > tap_times[Len(tap_times)]
  /\ LET q == DequeAppend(tap_times, now, TAP_MAXLEN) IN
       /\ tap_times' = q
       /\ TEMPO' = IF Len(q) >= 2 THEN TempoInt(TapTempoOf(q)) ELSE TEMPO
  /\ tap_count' = tap_count + 1
  /\ out' = NoOut
  /\ UNCH_LOOPS
  /\ UNCHANGED << COLORS, main_pc, now, hist, probe, latency_history >>

\* Any other key: tap_tempo returns to interactive_mode.
TapExit ==
  /\ Idle
  /\ main_pc = "tap_read"
  /\ main_pc' = "input"
  /\ tap_times' = << >>
  /\ tap_count' = 0
  /\ out' = NoOut
  /\ UNCH_LOOPS
  /\ UNCHANGED << TEMPO, COLORS, now, hist, probe, latency_history >>

(* ------------------------------ latency ------------------------------- *)
\* api_call returns or raises.  Only the path on which the response text
\* was read records latency = time.perf_counter() - start.
ApiCallDone(outcome, latency) ==
  /\ Idle
  /\ latency_history' =
       IF outcome = "OK"
       THEN DequeAppend(latency_history, latency, LATENCY_MAXLEN)
       ELSE latency_history
  /\ out' = NoOut
  /\ UNCH_LOOPS
  /\ UNCHANGED << TEMPO, COLORS, main_pc, tap_times, tap_count, now, hist >>

RECURSIVE SeqMin(_)
SeqMin(q) ==
  IF Len(q) = 1 THEN q[1] ELSE Min(Head(q), SeqMin(Tail(q)))

RECURSIVE SeqMax(_)
SeqMax(q) ==
  IF Len(q) = 1 THEN q[1] ELSE Max(Head(q), SeqMax(Tail(q)))

\* f"{x*1000:.1f}ms" for x = n / d microseconds: tenths of a millisecond,
\* nearest, with a tie (which a float product hardly ever hits) to even.
FormatMs(n, d) == RoundHalfEven(n, 100 * d)

get_latency_stats ==
  IF latency_history = << >>
  THEN [text |-> "No latency data yet"]
  ELSE [ text |-> "Latency",
         avg |-> FormatMs(SumSeq(latency_history), Len(latency_history)),
         min |-> FormatMs(SeqMin(latency_history), 1),
         max |-> FormatMs(SeqMax(latency_history), 1) ]

(* -------------------------------- time -------------------------------- *)
\* The clock advances by d ms, at any point of the program.
Tick(d, horizon) ==
  /\ now + d <= horizon
  /\ now' = now + d
  /\ out' = NoOut
  /\ UNCHANGED << TEMPO, COLORS, tasks >>
  /\ UNCH_CMD

Timers ==
  { tasks[t].wake_at : t \in { u \in TaskIds :
        tasks[u].pc \in {"sleep", "warm_sleep"} /\ tasks[u].wake_at > now } }

\* The clock reaches the earliest pending timer.
Elapse(horizon) ==
  /\ Timers # {}
  /\ LET w == CHOOSE x \in Timers : \A y \in Timers : x <= y
     IN w <= horizon /\ now' = w
  /\ out' = NoOut
  /\ UNCHANGED << TEMPO, COLORS, tasks >>
  /\ UNCH_CMD

(* --------------------------- specification ---------------------------- *)
NoProbe == [stage |-> "off"]

Init ==
  /\ TEMPO = TempoInt(120)
  /\ COLORS = << "#FE00AE", "#00FFDD" >>
  /\ beat_task = None /\ fade_task = None
  /\ switch_task = None /\ strobe_task = None
  /\ strobe = FALSE
  /\ previous_tasks = << FALSE, FALSE >>
  /\ tasks = << >>
  /\ main_pc = "input"
  /\ tap_times = << >>
  /\ tap_count = 0
  /\ now = 0
  /\ out = NoOut
  /\ hist = << >>
  /\ probe = NoProbe
  /\ latency_history = << >>

CycleArgs == {"None", "red"}
ColorLists == { << "red" >>, << "bogus" >>, << "RED", "#123456", "nope" >> }
TickSteps == {150}
SchedTicks == {50, 180}

LoopStep(t) ==
  \/ TaskStart(t)
  \/ \E o \in NetOutcomes : NetDone(t, o)
  \/ WarmWake(t)
  \/ Check(t)
  \/ WaitEnter(t)
  \/ WaitCalc(t)
  \/ Wake(t)
  \/ Fire(t)

\* The dispatcher's loop commands and the loops they start and cancel.
Next ==
  \/ \E t \in TaskIds : LoopStep(t)
  \/ CmdStrobe
  \/ \E a \in CycleArgs : CmdFade(a)
  \/ \E a \in CycleArgs : CmdSwitch(a)
  \/ CmdBeat
  \/ CmdStop
  \/ \E d \in TickSteps : Tick(d, MaxTime)
  \/ Elapse(MaxTime)

Spec == Init /\ [][Next]_vars

\* One loop, just created by its command at time 0 ...
LoopCreated(args) ==
  /\ \E kind \in {"fade", "switch", "beat", "strobe"} :
       \E a \in (IF kind \in {"fade", "switch"} THEN args ELSE {"None"}) :
         /\ tasks = << NewTask(kind, IF a = "None" THEN a ELSE resolve_color(a)) >>
         /\ beat_task = (IF kind = "beat" THEN 1 ELSE None)
         /\ fade_task = (IF kind = "fade" THEN 1 ELSE None)
         /\ switch_task = (IF kind = "switch" THEN 1 ELSE None)
         /\ strobe_task = (IF kind = "strobe" THEN 1 ELSE None)
         /\ strobe = (kind = "strobe")
         /\ hist = << (IF kind = "strobe" THEN "s" ELSE kind) >>
  /\ TEMPO = TempoInt(120)
  /\ COLORS = << "#FE00AE", "#00FFDD" >>
  /\ previous_tasks = << FALSE, FALSE >>
  /\ main_pc = "input"
  /\ tap_times = << >>
  /\ tap_count = 0
  /\ now = 0
  /\ out = NoOut
  /\ probe = NoProbe
  /\ latency_history = << >>

InitLoops == LoopCreated(CycleArgs)

InitSched == LoopCreated({"None"})

\* ... under colors commands
NextColors ==
  \/ \E t \in TaskIds : LoopStep(t)
  \/ \E p \in ColorLists \cup {<< >>} : CmdColors(p)
  \/ \E d \in TickSteps : Tick(d, MaxTimeColors)
  \/ Elapse(MaxTimeColors)

SpecColors == InitLoops /\ [][NextColors]_vars

\* ... under tempo commands and tap mode
NextSched ==
  \/ \E t \in TaskIds : LoopStep(t)
  \/ \E a \in TempoArgs \cup {"None"} : CmdTempo(a)
  \/ CmdDouble(MaxExpMain)
  \/ CmdHalve(MinExpMain)
  \/ CmdTap
  \/ TapKey(MaxTaps)
  \/ TapExit
  \/ \E d \in SchedTicks : Tick(d, MaxTimeSched)
  \/ Elapse(MaxTimeSched)

SpecSched == InitSched /\ [][NextSched]_vars

\* The tempo commands alone: manual set, tap, "]" and "[", with "[" explored
\* down to the smallest double.
NextTempo ==
  \/ \E a \in TempoArgs \cup {"None"} : CmdTempo(a)
  \/ CmdDouble(MaxExpWide)
  \/ CmdHalve(FLOAT_MIN_EXP - 1)
  \/ CmdTap
  \/ TapKey(MaxTaps)
  \/ TapExit
  \/ \E d \in TickSteps : Tick(d, MaxTime)

SpecTempo == Init /\ [][NextTempo]_vars

\* calculate_interval evaluated by a fresh scheduler at a tempo T in
\* [40, 240] and again after "]" has doubled the tempo.
InitInterval ==
  /\ \E k \in TEMPO_MIN .. TEMPO_MAX : TEMPO = TempoInt(k)
  /\ \E b \in 1 .. MaxBeats :
       probe = [ stage |-> "new", beats |-> b, t1 |-> 0, i1 |-> [n |-> 0, d |-> 1],
                 i2 |-> [n |-> 0, d |-> 1] ]
  /\ COLORS = << "#FE00AE", "#00FFDD" >>
  /\ beat_task = None /\ fade_task = None
  /\ switch_task = None /\ strobe_task = None
  /\ strobe = FALSE
  /\ previous_tasks = << FALSE, FALSE >>
  /\ tasks = << >>
  /\ main_pc = "input"
  /\ tap_times = << >>
  /\ tap_count = 0
  /\ now = 0
  /\ out = NoOut
  /\ hist = << >>
  /\ latency_history = << >>

TempoValue(t) == IF t.e >= 0 THEN t.m * Pow2(t.e) ELSE 0

ProbeCalc ==
  /\ probe.stage \in {"new", "doubled"}
  /\ LET iv == calculate_interval(ScheduledLoop(probe.beats, 0)) IN
       probe' = IF probe.stage = "new"
                THEN [probe EXCEPT !.stage = "first", !.t1 = TempoValue(TEMPO),
                                   !.i1 = iv]
                ELSE [probe EXCEPT !.stage = "second", !.i2 = iv]
  /\ UNCHANGED << TEMPO, COLORS, beat_task, fade_task, switch_task,
                  strobe_task, strobe, previous_tasks, tasks, main_pc,
                  tap_times, tap_count, now, out, hist, latency_history >>

ProbeDouble ==
  /\ probe.stage = "first"
  /\ Double(MaxExpWide)
  /\ probe' = [probe EXCEPT !.stage = "doubled"]

NextInterval == ProbeCalc \/ ProbeDouble

SpecInterval == InitInterval /\ [][NextInterval]_vars

\* The tap session alone: taps on a 100 ms grid, more of them than the
\* deque holds.
TapTicks == {100}

NextTap ==
  \/ CmdTap
  \/ TapKey(MaxTapsWide)
  \/ TapExit
  \/ \E d \in TapTicks : Tick(d, MaxTimeTap)

SpecTap == Init /\ [][NextTap]_vars

\* The manual tempo command on any tempo that "]" and "[" produce; probe
\* keeps the argument read and the tempo before the command.
ManualTempo(arg) ==
  /\ Tempo(arg)
  /\ probe' = [stage |-> "tempo", arg |-> arg, before |-> TEMPO]

NextManual ==
  \/ \E a \in ManualArgs \cup {"None"} : ManualTempo(a)
  \/ Double(MaxExpWide) /\ probe' = NoProbe
  \/ Halve(MinExpMain) /\ probe' = NoProbe

SpecManual == Init /\ [][NextManual]_vars

\* The colors command on every list of up to MaxColorArgs entries drawn
\* from a name, a name in mixed case, an unknown name, a six-digit hex
\* value and a two-digit one; probe keeps the entries read and the list
\* before the command.
ColorTokens == {"red", "Cyan", "bogus", "#123456", "#12"}

ColorInputs ==
  UNION { [1 .. n -> ColorTokens] : n \in 0 .. MaxColorArgs }

PaletteColors(parts1) ==
  /\ Colors(parts1)
  /\ probe' = [stage |-> "colors", parts |-> parts1, before |-> COLORS]

NextPalette == \E p \in ColorInputs : PaletteColors(p)

SpecPalette == Init /\ [][NextPalette]_vars

\* Device calls returning one after the other and the stats command; probe
\* keeps every latency recorded so far and what stats printed last.
LatencySamples == {4960, 20040, 999000}

Recorded == IF probe.stage = "latency" THEN probe.recorded ELSE << >>

SlowCount ==
  Cardinality({ i \in 1 .. Len(Recorded) :
                  \E s \in LatencySamples : s < Recorded[i] })

RecordCall(outcome, latency) ==
  /\ Len(Recorded) < MaxSamples
  /\ (\E s \in LatencySamples : s < latency) => SlowCount < MaxSlow
  /\ ApiCallDone(outcome, latency)
  /\ probe' = IF outcome = "OK"
              THEN [ stage |-> "latency",
                     recorded |-> Append(Recorded, latency),
                     stats |-> [text |-> "none"] ]
              ELSE probe

\* command == "stats"
CmdStats ==
  /\ CmdReady
  /\ probe' = [ stage |-> "latency", recorded |-> Recorded,
                stats |-> get_latency_stats ]
  /\ out' = NoOut
  /\ UNCH_LOOPS
  /\ UNCHANGED << TEMPO, COLORS, main_pc, tap_times, tap_count, now, hist,
                  latency_history >>

NextLatency ==
  \/ \E o \in NetOutcomes, l \in LatencySamples : RecordCall(o, l)
  \/ CmdStats

SpecLatency == Init /\ [][NextLatency]_vars

\* A strobe loop, started by the s command and run up to its while loop,
\* under every tempo command, with "[" explored down to the smallest double.
InitStrobe ==
  /\ TEMPO = TempoInt(120)
  /\ COLORS = << "#FE00AE", "#00FFDD" >>
  /\ tasks = << [ NewTask("strobe", "None") EXCEPT
                    !.loop = ScheduledLoop(0, STROBE_MS), !.pc = "wait" ] >>
  /\ beat_task = None /\ fade_task = None
  /\ switch_task = None /\ strobe_task = 1
  /\ strobe = TRUE
  /\ previous_tasks = << FALSE, FALSE >>
  /\ main_pc = "input"
  /\ tap_times = << >>
  /\ tap_count = 0
  /\ now = 0
  /\ out = NoOut
  /\ hist = << "s" >>
  /\ probe = NoProbe
  /\ latency_history = << >>

StrobeStep(t) ==
  \/ WaitEnter(t)
  \/ WaitCalc(t)
  \/ Wake(t)
  \/ Fire(t)

NextStrobe ==
  \/ \E t \in TaskIds : StrobeStep(t)
  \/ \E a \in TempoArgs : CmdTempo(a)
  \/ CmdDouble(MaxExpMain)
  \/ CmdHalve(FLOAT_MIN_EXP - 1)
  \/ \E d \in TickSteps : Tick(d, MaxTimeStrobe)
  \/ Elapse(MaxTimeStrobe)

SpecStrobe == InitStrobe /\ [][NextStrobe]_vars

(* ============================== claims ================================ *)
Handles == {beat_task, fade_task, switch_task, strobe_task} \ {None}

Live(t) == tasks[t].pc \notin {"cancelled", "failed"}

AllNull(b, f, sw, st) == b = None /\ f = None /\ sw = None /\ st = None

\* C1: after any sequence of fade, switch, beat, s and stop commands at most
\* one of the four loop handles is non-null.
C1_AtMostOneHandle ==
  (IF beat_task # None THEN 1 ELSE 0) + (IF fade_task # None THEN 1 ELSE 0)
  + (IF switch_task # None THEN 1 ELSE 0)
  + (IF strobe_task # None THEN 1 ELSE 0) <= 1

\* The commands fade, s, s were read and the fade handle is the one set.
C1_Witness ==
  /\ hist = << "fade", "s", "s" >>
  /\ fade_task # None
  /\ Len(tasks) = 3

\* C2: turning strobe off restores what ran before strobe was turned on:
\* after the commands fade, s, s (switch, s, s) a fade (switch) loop is the
\* one running loop; when neither ran before the two s commands, every
\* handle is null after them.
C2_StrobeOffRestores ==
  [][ strobe' # strobe =>
        /\ hist' = << "fade", "s", "s" >> =>
             /\ fade_task' # None
             /\ tasks'[fade_task'].kind = "fade"
             /\ tasks'[fade_task'].pc \in SuspendedPcs
             /\ AllNull(beat_task', None, switch_task', strobe_task')
        /\ hist' = << "switch", "s", "s" >> =>
             /\ switch_task' # None
             /\ tasks'[switch_task'].kind = "switch"
             /\ tasks'[switch_task'].pc \in SuspendedPcs
             /\ AllNull(beat_task', fade_task', None, strobe_task')
        /\ hist' \in { << "beat", "s", "s" >>, << "stop", "s", "s" >>,
                       << "s", "s" >> } =>
             AllNull(beat_task', fade_task', switch_task', strobe_task')
    ]_vars

\* C3: the s command toggles the strobe loop itself: with no strobe loop
\* running it records the active fade / switch kind, stops that loop and
\* starts a strobe loop; with a strobe loop running it stops that loop.
C3_StrobeTogglesLoop ==
  [][ strobe' # strobe =>
        IF strobe_task = None
        THEN /\ strobe_task' # None
             /\ tasks'[strobe_task'].kind = "strobe"
             /\ previous_tasks' = << fade_task # None, switch_task # None >>
             /\ fade_task' = None /\ switch_task' = None
             /\ \A t \in {fade_task, switch_task} \ {None} :
                  tasks'[t].pc \in {"cancelled", "failed"}
        ELSE /\ strobe_task' = None
             /\ tasks'[strobe_task].pc = "cancelled"
    ]_vars

\* target - now < -100 ms for the scheduler of task t, with
\* target = start_time + cycle_num * interval.
Drifted(t) ==
  LET l == tasks[t].loop
      iv == calculate_interval(l)
  IN (now - l.start_time) * iv.d - l.cycle_num * iv.n > 100 * iv.d

\* C4 as claimed: cycle_num of a scheduler only ever decreases in a call of
\* wait_for_next_cycle that finds the drift above 100 ms.
C4_DecreasesOnlyOnDrift ==
  [][ \A t \in TaskIds :
        (Live(t)' /\ tasks'[t].loop.cycle_num < tasks[t].loop.cycle_num)
          => (tasks[t].pc = "calc" /\ Drifted(t))
    ]_vars

\* C4 as amended: a call of wait_for_next_cycle resets cycle_num to 0 (and
\* the anchor to now) exactly when the drift is above 100 ms and otherwise
\* adds one to it when it returns; the only other decrease is the reset to 0
\* by check_tempo_changed when the live tempo differs from the snapshot.
C4_ResetOnDriftOrTempo ==
  [][ \A t \in TaskIds :
        LET l == tasks[t].loop
            l2 == tasks'[t].loop
        IN Live(t)' =>
           /\ l2.cycle_num < l.cycle_num =>
                /\ l2.cycle_num = 0
                /\ \/ tasks[t].pc = "calc" /\ Drifted(t)
                   \/ tasks[t].pc = "check" /\ TEMPO # l.current_tempo
           /\ (tasks[t].pc = "calc" /\ tasks'[t].pc # "calc") =>
                IF Drifted(t)
                THEN /\ l2.cycle_num = 0 /\ l2.start_time = now
                     /\ tasks'[t].pc = LoopTop(tasks[t].kind)
                ELSE \/ tasks'[t].pc = "fire" /\ l2.cycle_num = l.cycle_num + 1
                     \/ tasks'[t].pc = "sleep" /\ l2 = l
           /\ (tasks[t].pc = "sleep" /\ tasks'[t].pc = "fire") =>
                l2.cycle_num = l.cycle_num + 1
    ]_vars

\* A beat loop that adopted a new tempo has just been resynchronised by a
\* drift above 100 ms.
C4_Witness ==
  \E t \in TaskIds :
    /\ tasks[t].kind = "beat" /\ tasks[t].pc = "check"
    /\ tasks[t].loop.cycle_num = 0
    /\ tasks[t].loop.start_time = now /\ now > 0
    /\ tasks[t].loop.current_tempo # TempoInt(120)

\* C5: for T in [40, 240] and beats_per_cycle B the interval is (60 / T) * B
\* seconds, and the interval at tempo 2T is half the interval at tempo T.
C5_IntervalFormula ==
  /\ probe.stage \in {"first", "doubled", "second"} =>
       probe.i1.n * probe.t1 = 60000 * probe.beats * probe.i1.d
  /\ probe.stage = "second" =>
       /\ TempoValue(TEMPO) = 2 * probe.t1
       /\ probe.i2.n * TempoValue(TEMPO) = 60000 * probe.beats * probe.i2.d
       /\ 2 * probe.i2.n * probe.i1.d = probe.i1.n * probe.i2.d

\* The interval of two beats was evaluated at 90 and then at 180 BPM.
C5_Witness ==
  /\ probe.stage = "second" /\ probe.beats = 2 /\ probe.t1 = 90
  /\ probe.i2.n * 3 = 2000 * probe.i2.d

\* C6: after any sequence of tempo, tap, "]" and "[" commands the shared
\* tempo is strictly positive.
C6_TempoPositive == TEMPO.m > 0

\* C7: every fire of a fade loop issues set_power with the negated flag; a
\* fire that turns power on also advances the colour index modulo the
\* length and pushes that colour; a fire that turns power off pushes none.
C7_FadeAlternates ==
  [][ \A t \in TaskIds :
        (tasks[t].kind = "fade" /\ tasks[t].pc = "fire"
           /\ tasks'[t].pc # "fire") =>
          LET self == tasks[t]
              len == Len(self.colors_to_use)
              idx == (self.color_index + 1) % len
              acts == out'.acts
          IN /\ out'.by = t
             /\ Len(acts) >= 1
             /\ acts[1].op = "set_power"
             /\ self.power_state # "unbound" =>
                  acts[1].arg = Not(self.power_state)
             /\ tasks'[t].power_state = acts[1].arg
             /\ IF acts[1].arg = "True"
                THEN /\ tasks'[t].color_index = idx
                     /\ acts = << acts[1],
                            Call("set_color", self.colors_to_use[idx + 1], 100) >>
                ELSE Len(acts) = 1
    ]_vars

\* C8: every fire of a switch loop advances the colour index by one modulo
\* the length of the loop's current sequence and pushes the colour at that
\* index of the current sequence, and issues no power command.
C8_SwitchAdvances ==
  [][ \A t \in TaskIds :
        (tasks[t].kind = "switch" /\ tasks[t].pc = "fire"
           /\ tasks'[t].pc # "fire") =>
          LET self == tasks[t]
              len == Len(self.colors_to_use)
              idx == (self.color_index + 1) % len
          IN /\ tasks'[t].color_index = idx
             /\ out' = Issue(t,
                   << Call("set_color", self.colors_to_use[idx + 1], 100) >>)
    ]_vars

\* C9: a loop cancelled by a command (its handle is dropped) issues no
\* further device call and never runs again.
C9_CancelledNeverFires ==
  [][ \A t \in TaskIds :
        /\ (t \in Handles /\ t \notin Handles') =>
             tasks'[t].pc \in {"cancelled", "failed"}
        /\ t \notin Handles =>
             /\ out'.by # t
             /\ tasks'[t].pc \in {"cancelled", "failed"}
             /\ tasks'[t] = tasks[t]
    ]_vars

\* A strobe loop was cancelled and a later loop is issuing a device call.
C9_Witness ==
  \E t \in TaskIds :
    /\ tasks[t].kind = "strobe" /\ tasks[t].pc = "cancelled"
    /\ out.by \notin {0, t}
    /\ now > 0

\* C10: tap mode never blocks a running loop: while tap_tempo waits for a
\* key, every live loop whose await is over can take its next step, and a
\* loop's check_tempo_changed adopts the live tempo, a tapped one included.
C10_TapModeStep ==
  \A t \in TaskIds :
    ( /\ main_pc = "tap_read"
      /\ Live(t)
      /\ tasks[t].pc \in {"sleep", "warm_sleep"} => now >= tasks[t].wake_at
      /\ \A u \in TaskIds \ {t} : tasks[u].pc \notin RunningPcs )
    => ENABLED LoopStep(t)

C10_Adopts ==
  \A t \in TaskIds :
    (tasks[t].pc = "check" /\ tasks'[t].pc = "wait") =>
      /\ tasks'[t].loop.current_tempo = TEMPO
      /\ TEMPO # tasks[t].loop.current_tempo =>
           /\ tasks'[t].loop.start_time = now
           /\ tasks'[t].loop.cycle_num = 0

C10_TapNeverBlocks == [] C10_TapModeStep /\ [][C10_Adopts]_vars

\* In tap mode, a beat loop fires at the tempo the taps have published.
C10_Witness ==
  \E t \in TaskIds :
    /\ main_pc = "tap_read"
    /\ Len(tap_times) >= 2
    /\ TEMPO = TempoInt(TapTempoOf(tap_times))
    /\ TEMPO # TempoInt(120)
    /\ tasks[t].kind = "beat"
    /\ tasks[t].loop.current_tempo = TEMPO
    /\ tasks[t].loop.start_time >= tap_times[Len(tap_times)]
    /\ out.by = t
    /\ out.acts = << Call("set_effect", "white_strobe_flash", 100) >>

Abs(x) == IF x < 0 THEN 0 - x ELSE x

\* On a tap: the buffer becomes the at most 8 most recent taps; with fewer
\* than 2 of them the tempo is unchanged, otherwise the new tempo v is
\* round(60 / mean interval) clamped to [40, 240], where the mean of the
\* k consecutive intervals is span / k.
C11_OnTap ==
  tap_count' = tap_count + 1 =>
    LET all == Append(tap_times, now)
        q == tap_times'
        k == Len(q) - 1
        span == q[Len(q)] - q[1]
        v == TempoValue(TEMPO')
        off == Abs(v * span - 60000 * k)
    IN /\ q = SubSeq(all, Len(all) - Min(Len(all), 8) + 1, Len(all))
       /\ IF Len(q) < 2 THEN TEMPO' = TEMPO
          ELSE /\ TEMPO' = TempoInt(v)
               /\ v \in 40 .. 240
               /\ (40 < v /\ v < 240) =>
                    /\ 2 * off <= span
                    /\ 2 * off = span => v % 2 = 0
               /\ v = 240 => 2 * 60000 * k >= 479 * span
               /\ v = 40 => 2 * 60000 * k <= 81 * span

C11_Examples ==
  (main_pc = "tap_read" /\ Len(tap_times) >= 2) =>
    /\ TempoValue(TEMPO) \in 40 .. 240
    /\ tap_times = << 0, 500, 1000 >> => TEMPO = TempoInt(120)
    /\ (\A i \in 1 .. Len(tap_times) - 1 :
          tap_times[i + 1] - tap_times[i] = 100) => TEMPO = TempoInt(240)

\* C11: a tap that leaves fewer than 2 timestamps publishes nothing; any
\* other tap sets the tempo to round(60 / mean interval of the at most 8
\* most recent taps) clamped to [40, 240]; taps at 0, 0.5, 1.0 s give 120
\* and a mean interval of 0.1 s gives 240.
C11_TapEstimate == [] C11_Examples /\ [][C11_OnTap]_vars

\* The ninth tap of a session evicted the first one and the unclamped
\* estimate was 600.
C11_Witness ==
  /\ main_pc = "tap_read" /\ tap_count = 9
  /\ tap_times = << 100, 200, 300, 400, 500, 600, 700, 800 >>
  /\ TEMPO = TempoInt(240)

\* C12: a tempo command with a non-numeric argument or an integer outside
\* [40, 240] leaves the tempo as it was; an integer inside [40, 240]
\* becomes the tempo.
C12_ManualTempo ==
  probe.stage = "tempo" =>
    /\ probe.arg \in {"abc", "39", "241", "-60", "1000"} =>
         TEMPO = probe.before
    /\ probe.arg = "40" => (TEMPO.e >= 0 /\ TempoValue(TEMPO) = 40)
    /\ probe.arg = "60" => (TEMPO.e >= 0 /\ TempoValue(TEMPO) = 60)
    /\ probe.arg = "240" => (TEMPO.e >= 0 /\ TempoValue(TEMPO) = 240)

\* "tempo 40" was read at 960 BPM.
C12_Witness ==
  /\ probe.stage = "tempo" /\ probe.arg = "40"
  /\ probe.before = TempoInt(960)
  /\ TEMPO = TempoInt(40)

\* The valid entries of a colors list, resolved, in the order given: a
\* recognised name gives its hex value, a well-formed hex value itself.
RECURSIVE C13_ValidEntries(_)
C13_ValidEntries(parts) ==
  IF parts = << >> THEN << >>
  ELSE LET c == Head(parts)
           rest == C13_ValidEntries(Tail(parts))
       IN CASE c = "red" -> << "#FF0000" >> \o rest
            [] c = "Cyan" -> << "#00FFDD" >> \o rest
            [] c = "#123456" -> << "#123456" >> \o rest
            [] OTHER -> rest

\* C13: after a colors command COLORS is the list of the valid entries in
\* the order given, unknown names and malformed hex values filtered out,
\* when there is one; with no valid entry COLORS is unchanged; COLORS is
\* never empty.
C13_ColorsFiltered ==
  /\ COLORS # << >>
  /\ probe.stage = "colors" =>
       LET valid == C13_ValidEntries(probe.parts)
       IN IF valid # << >> THEN COLORS = valid ELSE COLORS = probe.before

\* C14: after n recorded samples the window is the min(n, 50) most recent
\* of them in recording order; stats gives the no-data result exactly when
\* the window is empty and otherwise the average, minimum and maximum of
\* the window (printed in ms with one decimal, so within 0.05 ms of them).
C14_LatencyWindow ==
  LET n == Len(Recorded)
      w == latency_history
      len == IF n < 50 THEN n ELSE 50
      st == get_latency_stats
  IN /\ Len(w) = len
     /\ \A i \in 1 .. len : w[i] = Recorded[n - len + i]
     /\ (st.text = "No latency data yet") <=> (len = 0)
     /\ len > 0 =>
          /\ \E i \in 1 .. len :
               /\ \A j \in 1 .. len : w[i] <= w[j]
               /\ 2 * Abs(100 * st.min - w[i]) <= 100
          /\ \E i \in 1 .. len :
               /\ \A j \in 1 .. len : w[i] >= w[j]
               /\ 2 * Abs(100 * st.max - w[i]) <= 100
          /\ 2 * Abs(100 * len * st.avg - SumSeq(w)) <= 100 * len
     /\ (probe.stage = "latency" /\ probe.stats.text # "none") =>
          probe.stats = st

\* 51 samples were recorded, the first of them a slow one, and stats shows
\* the 50 fast ones only.
C14_Witness ==
  /\ Len(Recorded) = 51
  /\ Recorded[1] = 20040
  /\ Len(latency_history) = 50
  /\ probe.stats = [text |-> "Latency", avg |-> 50, min |-> 50, max |-> 50]

\* C15: a running strobe loop ignores the tempo: no tempo change touches
\* it, it never ends, it sleeps until start_time + cycle_num * 80 ms, and
\* its cursor is reset only by a drift above 100 ms on that 80 ms grid.
C15_StrobeIgnoresTempo ==
  [][ \A t \in TaskIds :
        (tasks[t].kind = "strobe" /\ tasks[t].pc \notin {"start", "cancelled"})
        => LET l == tasks[t].loop
               l2 == tasks'[t].loop
               late == now - (l.start_time + l.cycle_num * 80)
           IN /\ tasks'[t].pc \notin {"failed", "cancelled"}
              /\ TEMPO' # TEMPO => tasks'[t] = tasks[t]
              /\ (tasks[t].pc = "calc" /\ tasks'[t].pc = "sleep") =>
                   tasks'[t].wake_at = l.start_time + l.cycle_num * 80
              /\ (l.start_time # NoTime /\
                  (l2.cycle_num < l.cycle_num \/ l2.start_time # l.start_time))
                   => (tasks[t].pc = "calc" /\ late > 100)
    ]_vars

\* The interval of task t's scheduler from the live tempo, as n / d ms:
\* 80 ms for strobe, else 60000 * beats / tempo with 1 beat for the beat
\* loop and 2 for fade and switch; and how late the clock is on
\* start_time + cycle_num * interval, times d.
C16_Interval(t) ==
  IF tasks[t].kind = "strobe" THEN [n |-> 80, d |-> 1]
  ELSE [n |-> 60000 * (IF tasks[t].kind = "beat" THEN 1 ELSE 2),
        d |-> TempoValue(TEMPO)]

C16_Late(t) ==
  (now - tasks[t].loop.start_time) * C16_Interval(t).d
    - tasks[t].loop.cycle_num * C16_Interval(t).n

\* C16: wait_for_next_cycle decides on delta = start_time + cycle_num *
\* interval - now alone.  Below -100 ms it sets start_time to now and
\* cycle_num to 0 and the loop goes back to its top without a device call;
\* above 0 it sleeps until the target and then adds one to cycle_num; from
\* -100 ms to 0 inclusive it adds one to cycle_num at once; a loop issues
\* device calls in a cycle only after such a return.
C16_WaitForNextCycle ==
  [][ \A t \in TaskIds :
        LET self == tasks[t]
            l == self.loop
            l2 == tasks'[t].loop
            d == C16_Interval(t).d
            target == l.start_time * d + l.cycle_num * C16_Interval(t).n
        IN /\ (self.pc = "calc" /\ tasks'[t].pc # "calc") =>
                IF C16_Late(t) > 100 * d
                THEN /\ l2.start_time = now /\ l2.cycle_num = 0
                     /\ tasks'[t].pc = LoopTop(self.kind)
                     /\ out' = NoOut
                ELSE IF C16_Late(t) < 0
                THEN /\ tasks'[t].pc = "sleep" /\ l2 = l
                     /\ tasks'[t].wake_at * d >= target
                     /\ (tasks'[t].wake_at - 1) * d < target
                ELSE /\ tasks'[t].pc = "fire"
                     /\ l2 = [l EXCEPT !.cycle_num = l.cycle_num + 1]
           /\ (self.pc = "sleep" /\ tasks'[t].pc # "sleep"
                 /\ tasks'[t].pc # "cancelled") =>
                /\ now >= self.wake_at
                /\ tasks'[t].pc = "fire"
                /\ l2 = [l EXCEPT !.cycle_num = l.cycle_num + 1]
           /\ (self.pc \in {"check", "wait", "calc", "sleep"}
                 /\ tasks'[t] # self) => out' = NoOut
    ]_vars

\* A call of wait_for_next_cycle, in a cycle after the first, reads the
\* clock exactly 100 ms past its target.
C16_Witness ==
  \E t \in TaskIds :
    /\ tasks[t].pc = "calc"
    /\ tasks[t].loop.cycle_num >= 1
    /\ C16_Late(t) = 100 * C16_Interval(t).d

\* check_tempo_changed has just run in task t and the scheduler call that
\* follows has not returned yet.
C17_Checked(t) ==
  tasks[t].kind # "strobe" /\ tasks[t].pc \in {"wait", "calc"}

\* C17: check_tempo_changed sets start_time to now, cycle_num to 0 and the
\* snapshot to the live tempo exactly when the two differ, and changes
\* nothing when they are equal; the call that follows a reset has the
\* reset instant as its target, so it does not sleep; and every sleep ends
\* on the grid of the snapshot tempo, which is the live one.
C17_CheckTempoChanged ==
  /\ [] (\A t \in TaskIds :
           C17_Checked(t) => tasks[t].loop.current_tempo = TEMPO)
  /\ [][ \A t \in TaskIds :
          LET l == tasks[t].loop
              l2 == tasks'[t].loop
              beats == IF tasks[t].kind = "beat" THEN 1 ELSE 2
              T == TempoValue(l.current_tempo)
              target == l.start_time * T + l.cycle_num * 60000 * beats
          IN /\ (tasks[t].pc = "check" /\ tasks'[t] # tasks[t]) =>
                  /\ tasks'[t].pc = "wait"
                  /\ IF TEMPO # l.current_tempo
                     THEN l2 = [l EXCEPT !.start_time = now, !.cycle_num = 0,
                                         !.current_tempo = TEMPO]
                     ELSE l2 = l
             /\ (C17_Checked(t) /\ tasks'[t].pc = "sleep") =>
                  /\ l.cycle_num > 0
                  /\ tasks'[t].wake_at * T >= target
                  /\ (tasks'[t].wake_at - 1) * T < target
      ]_vars

\* A beat loop whose warm-up is over sleeps until the second beat of the
\* 240 BPM grid it adopted: 250 ms after its anchor.
C17_Witness ==
  \E t \in TaskIds :
    /\ tasks[t].kind = "beat" /\ tasks[t].pc = "sleep"
    /\ tasks[t].loop.current_tempo = TempoInt(240)
    /\ TEMPO = TempoInt(240)
    /\ tasks[t].loop.cycle_num = 1
    /\ tasks[t].loop.start_time >= 150
    /\ tasks[t].wake_at = tasks[t].loop.start_time + 250

\* C18: a loop that has started is suspended nowhere but in the
\* scheduler's timed wait: it never waits for a device call (so a slow
\* call cannot delay its next wake) and is never cancelled in the middle
\* of one.
C18_NeverAwaitsDevice ==
  /\ [] (\A t \in TaskIds :
           tasks[t].pc \in SuspendedPcs \ {"start"} => tasks[t].pc = "sleep")
  /\ [][ \A t \in TaskIds :
          tasks[t].pc \in {"await_color", "await_power"} =>
            tasks'[t].pc # "cancelled" ]_vars

\* C19: a loop that has reached its while loop leaves it only by being
\* cancelled by a command, never on its own or with an error, and every
\* cycle that is not skipped issues its device call.
C19_EndsOnlyByCancel ==
  [][ \A t \in TaskIds :
        tasks[t].pc \in {"check", "wait", "calc", "sleep", "fire"} =>
          /\ tasks'[t].pc # "failed"
          /\ tasks'[t].pc = "cancelled" => (t \in Handles /\ t \notin Handles')
          /\ (tasks[t].pc = "fire" /\ tasks'[t] # tasks[t]) =>
               (out'.by = t /\ out'.acts # << >>)
    ]_vars

\* C20: every reset of a scheduler's cursor (the first call of a fresh
\* scheduler, a drift resync, a tempo change) leaves start_time = now and
\* cycle_num = 0, and a call that finds cycle_num = 0 less than 100 ms
\* after start_time does not sleep and does not skip: it returns to fire
\* with cycle_num = 1 and the anchor kept.
C20_FiresAfterResync ==
  [][ \A t \in TaskIds :
        LET l == tasks[t].loop
            l2 == tasks'[t].loop
        IN /\ (Live(t)' /\ l2.start_time # l.start_time) =>
                (l2.start_time = now /\ l2.cycle_num = 0)
           /\ (tasks[t].pc = "calc" /\ tasks'[t].pc # "calc"
                 /\ l.cycle_num = 0 /\ now - l.start_time < 100) =>
                /\ tasks'[t].pc = "fire"
                /\ l2 = [l EXCEPT !.cycle_num = 1]
    ]_vars

\* A strobe loop anchored at 0 woke at 80 ms, found itself 150 ms late at
\* 310 ms and resynchronised there (310 is no sum of clock steps, so no
\* scheduler is first anchored at it); its next call, 50 ms later, has
\* returned to fire with cycle_num = 1.
C20_Witness ==
  \E t \in TaskIds :
    /\ tasks[t].kind = "strobe" /\ tasks[t].pc = "fire"
    /\ tasks[t].loop.cycle_num = 1
    /\ tasks[t].loop.start_time = 310
    /\ now = 360

====
